---- MODULE Spec2Model ----
(***************************************************************************)
(* Navigation state machine of the e-ink reader server.                    *)
(*                                                                         *)
(* The device state is the single row (id = 1) of the device_state table   *)
(* (modules/services/database.py).  WorkflowManager.handle_input           *)
(* (modules/services/workflow.py) reads the row, dispatches on the mode    *)
(* and the button, and writes partial updates back with update_state.      *)
(***************************************************************************)
EXTENDS Integers, Sequences, FiniteSets, TLC

\* ------------------------------------------------------------------ bounds
\* cursor_index is incremented without a ceiling by button B; the model
\* stops pressing B at MaxCursor.
MaxCursor == 2

\* current_page is incremented without a ceiling by button F in READER.
MaxPage == 1

\* scroll_step is moved without floor or ceiling by A / B in READER; the
\* model keeps it in -MaxStep .. MaxStep.
MaxStep == 1

\* Longest list the content source returns.
MaxListLen == 3

\* Content-source identifiers are 1 .. MaxId (0 is the column default).
MaxId == 2

\* Render calls begun in one run of the engine.
MaxCalls == 3

\* Measured document heights are 0, 100, ... , 100 * MaxHeightUnits pixels.
MaxHeightUnits == 9

\* Largest scroll step a caller passes to render_scroll_view.
MaxScroll == 3

\* Most pixels of an image handed to the bit packer.
MaxPixels == 4

\* Largest palette index a quantized image holds; 0 .. 3 are the four grays.
MaxIndex == 4

\* Longest list handed to the list view.
MaxTotal == 24

\* Most pages of a chapter served by the chapter endpoints.
MaxChapterPages == 2

\* ------------------------------------------------------------- vocabulary
Modes == <<"LIBRARIES", "SERIES", "BOOKS", "READER">>

ModeSet == {Modes[i] : i \in 1..Len(Modes)}

Buttons == {"A", "B", "C", "D", "E", "F"}

EventTypes == {"single", "hold"}

DitherModes == {"THRESHOLD", "FLOYD"}

\* Position of a mode in the chain LIBRARIES - SERIES - BOOKS - READER.
Depth(m) == CHOOSE i \in 1..Len(Modes) : Modes[i] = m

Max(a, b) == IF a >= b THEN a ELSE b

\* --------------------------------------------------------- content source
\* A list item as the workflow reads it: "id" for libraries and series,
\* "chapterId" for the flattened volume list.  The r-th list of length n
\* carries the ids (i + r) % MaxId + 1, so neighbouring rows differ and the
\* chapterId of a row differs from its id.
Item(i, r) == [id |-> ((i + r) % MaxId) + 1, chapterId |-> ((i + r + 1) % MaxId) + 1]

ItemList(n, r) == [i \in 1..n |-> Item(i, r)]

\* Lengths of the lists the content source returns: empty (no cursor is
\* inside it), a single item (only cursor 0 is inside it) and the longest
\* (every cursor the model reaches is inside it).
ListLengths == {0, 1, MaxListLen}

\* What get_libraries / get_series / get_series_volumes may return: the
\* longest list under every numbering of its items, the shorter ones under
\* one.
Lists ==
    {ItemList(n, 0) : n \in ListLengths}
       \cup {ItemList(MaxListLen, r) : r \in 0..(MaxId - 1)}

\* ------------------------------------------------------------------ state
VARIABLES
    db,          \* the device_state row with id = 1
    state,       \* handle_input's local: the row as read by get_state()
    button,      \* the button of the event handled last ("-" before any)
    event_type,  \* its event type
    items,       \* the list fetched while handling it (<<>> if no fetch)
    engine,      \* the fields of the global HTMLEngine instance
    chromium,    \* the headless browser process: launches, contexts, open pages
    tasks,       \* the render calls of the concurrent request handlers
    calls_made,  \* number of render calls begun so far
    handlers,    \* the handle_input calls in progress, with their locals
    view,        \* the "current view" request in progress or served last
    invocation   \* the call of a stateless function in progress: arguments, outcome

nav_vars == <<db, state, button, event_type, items, handlers, view, invocation>>

engine_vars == <<engine, chromium, tasks, calls_made>>

vars == <<db, state, button, event_type, items, engine, chromium, tasks, calls_made,
          handlers, view, invocation>>

\* The row inserted by init_db: every column at its DEFAULT.
init_db ==
    [ mode                |-> "LIBRARIES",
      selected_library_id |-> 0,
      selected_series_id  |-> 0,
      selected_book_id    |-> 0,
      cursor_index        |-> 0,
      current_page        |-> 0,
      scroll_step         |-> 0,
      orientation         |-> 0,
      dither_mode         |-> "THRESHOLD" ]

\* UPDATE device_state SET k = ? ... WHERE id = 1: the named columns are
\* replaced, the others keep their value.
update_state(row, updates) ==
    [k \in DOMAIN row |-> IF k \in DOMAIN updates THEN updates[k] ELSE row[k]]

\* ----------------------------------------------------------------- handlers
\* The handlers compute the row that update_state leaves in the table; st is
\* the row handle_input read at its start, row the row the UPDATE applies to.

\* Variant: button A decrements without the floor at 0.
global_navigation_no_floor(btn, st, row) ==
    IF btn = "A" THEN update_state(row, [cursor_index |-> st.cursor_index - 1])
    ELSE IF btn = "B" THEN update_state(row, [cursor_index |-> st.cursor_index + 1])
    ELSE row

\* Variant: button B stops at the second row.
global_navigation_clamped(btn, st, row) ==
    IF btn = "A" THEN update_state(row, [cursor_index |-> Max(0, st.cursor_index - 1)])
    ELSE IF btn = "B"
    THEN update_state(row, [cursor_index |-> IF st.cursor_index < 1
                                             THEN st.cursor_index + 1 ELSE 1])
    ELSE row

\* handle_input, mode != "READER", buttons A (up) and B (down).
global_navigation(btn, st, row) ==
    IF btn = "A" THEN update_state(row, [cursor_index |-> Max(0, st.cursor_index - 1)])
    ELSE IF btn = "B" THEN update_state(row, [cursor_index |-> st.cursor_index + 1])
    ELSE row

\* Variant: the selection takes the row above the cursor (index off by one).
handle_libraries_off_by_one(btn, st, row, libraries) ==
    IF btn = "C" /\ st.cursor_index < Len(libraries)
    THEN update_state(row, [ mode                |-> "SERIES",
                             selected_library_id |-> libraries[Max(1, st.cursor_index)].id,
                             cursor_index        |-> 0 ])
    ELSE row

\* _handle_libraries; libraries is the result of get_libraries().
handle_libraries(btn, st, row, libraries) ==
    IF btn = "C" /\ st.cursor_index < Len(libraries)
    THEN update_state(row, [ mode                |-> "SERIES",
                             selected_library_id |-> libraries[st.cursor_index + 1].id,
                             cursor_index        |-> 0 ])
    ELSE row

\* Variant: going back keeps the cursor where it was.
handle_series_keep_cursor(btn, st, row, series) ==
    IF btn = "C"
    THEN IF st.cursor_index < Len(series)
         THEN update_state(row, [ mode               |-> "BOOKS",
                                  selected_series_id |-> series[st.cursor_index + 1].id,
                                  cursor_index       |-> 0 ])
         ELSE row
    ELSE IF btn = "D"
    THEN update_state(row, [mode |-> "LIBRARIES"])
    ELSE row

\* _handle_series; series is the result of get_series(selected_library_id).
handle_series(btn, st, row, series) ==
    IF btn = "C"
    THEN IF st.cursor_index < Len(series)
         THEN update_state(row, [ mode               |-> "BOOKS",
                                  selected_series_id |-> series[st.cursor_index + 1].id,
                                  cursor_index       |-> 0 ])
         ELSE row
    ELSE IF btn = "D"
    THEN update_state(row, [mode |-> "LIBRARIES", cursor_index |-> 0])
    ELSE row

\* Variant: a cursor past the end of the volume list is put back on the
\* first row.
handle_books_reset_on_miss(btn, st, row, volumes) ==
    IF btn = "C"
    THEN IF st.cursor_index < Len(volumes)
         THEN update_state(row, [ mode             |-> "READER",
                                  selected_book_id |-> volumes[st.cursor_index + 1].chapterId,
                                  current_page     |-> 0 ])
         ELSE update_state(row, [cursor_index |-> 0])
    ELSE IF btn = "D"
    THEN update_state(row, [mode |-> "SERIES", cursor_index |-> 0])
    ELSE row

\* Variant: going back from the volume list returns to the root.
handle_books_back_to_root(btn, st, row, volumes) ==
    IF btn = "C"
    THEN IF st.cursor_index < Len(volumes)
         THEN update_state(row, [ mode             |-> "READER",
                                  selected_book_id |-> volumes[st.cursor_index + 1].chapterId,
                                  current_page     |-> 0 ])
         ELSE row
    ELSE IF btn = "D"
    THEN update_state(row, [mode |-> "LIBRARIES", cursor_index |-> 0])
    ELSE row

\* _handle_books; volumes is the result of get_series_volumes(selected_series_id).
handle_books(btn, st, row, volumes) ==
    IF btn = "C"
    THEN IF st.cursor_index < Len(volumes)
         THEN update_state(row, [ mode             |-> "READER",
                                  selected_book_id |-> volumes[st.cursor_index + 1].chapterId,
                                  current_page     |-> 0 ])
         ELSE row
    ELSE IF btn = "D"
    THEN update_state(row, [mode |-> "SERIES", cursor_index |-> 0])
    ELSE row

\* Variant: the jump to the next page keeps the scroll position.
handle_reader_keep_scroll(btn, st, et, row) ==
    CASE btn = "A" -> update_state(row, [scroll_step |-> st.scroll_step - 1])
      [] btn = "B" -> update_state(row, [scroll_step |-> st.scroll_step + 1])
      [] btn = "F" -> update_state(row, [current_page |-> st.current_page + 1])
      [] btn = "C" -> update_state(row, [ current_page |-> Max(0, st.current_page - 1),
                                          scroll_step  |-> 0 ])
      [] btn = "D" -> update_state(row, [mode |-> "BOOKS", cursor_index |-> 0])
      [] btn = "E" ->
            IF et = "single"
            THEN update_state(row, [orientation |-> IF st.orientation = 0 THEN 1 ELSE 0])
            ELSE IF et = "hold"
            THEN update_state(row, [dither_mode |-> IF st.dither_mode = "THRESHOLD"
                                                    THEN "FLOYD" ELSE "THRESHOLD"])
            ELSE row
      [] OTHER -> row

\* Variant: scrolling up stops at step 0.
handle_reader_scroll_floor(btn, st, et, row) ==
    CASE btn = "A" -> update_state(row, [scroll_step |-> Max(0, st.scroll_step - 1)])
      [] btn = "B" -> update_state(row, [scroll_step |-> st.scroll_step + 1])
      [] btn = "F" -> update_state(row, [current_page |-> st.current_page + 1, scroll_step |-> 0])
      [] btn = "C" -> update_state(row, [ current_page |-> Max(0, st.current_page - 1),
                                          scroll_step  |-> 0 ])
      [] btn = "D" -> update_state(row, [mode |-> "BOOKS", cursor_index |-> 0])
      [] btn = "E" ->
            IF et = "single"
            THEN update_state(row, [orientation |-> IF st.orientation = 0 THEN 1 ELSE 0])
            ELSE IF et = "hold"
            THEN update_state(row, [dither_mode |-> IF st.dither_mode = "THRESHOLD"
                                                    THEN "FLOYD" ELSE "THRESHOLD"])
            ELSE row
      [] OTHER -> row

\* Variant: a single click on E always selects portrait.
handle_reader_set_portrait(btn, st, et, row) ==
    CASE btn = "A" -> update_state(row, [scroll_step |-> st.scroll_step - 1])
      [] btn = "B" -> update_state(row, [scroll_step |-> st.scroll_step + 1])
      [] btn = "F" -> update_state(row, [current_page |-> st.current_page + 1, scroll_step |-> 0])
      [] btn = "C" -> update_state(row, [ current_page |-> Max(0, st.current_page - 1),
                                          scroll_step  |-> 0 ])
      [] btn = "D" -> update_state(row, [mode |-> "BOOKS", cursor_index |-> 0])
      [] btn = "E" ->
            IF et = "single"
            THEN update_state(row, [orientation |-> 1])
            ELSE IF et = "hold"
            THEN update_state(row, [dither_mode |-> IF st.dither_mode = "THRESHOLD"
                                                    THEN "FLOYD" ELSE "THRESHOLD"])
            ELSE row
      [] OTHER -> row

\* Variant: a single click on E steps to the next orientation number.
handle_reader_next_orientation(btn, st, et, row) ==
    CASE btn = "A" -> update_state(row, [scroll_step |-> st.scroll_step - 1])
      [] btn = "B" -> update_state(row, [scroll_step |-> st.scroll_step + 1])
      [] btn = "F" -> update_state(row, [current_page |-> st.current_page + 1, scroll_step |-> 0])
      [] btn = "C" -> update_state(row, [ current_page |-> Max(0, st.current_page - 1),
                                          scroll_step  |-> 0 ])
      [] btn = "D" -> update_state(row, [mode |-> "BOOKS", cursor_index |-> 0])
      [] btn = "E" ->
            IF et = "single"
            THEN update_state(row, [orientation |-> st.orientation + 1])
            ELSE IF et = "hold"
            THEN update_state(row, [dither_mode |-> IF st.dither_mode = "THRESHOLD"
                                                    THEN "FLOYD" ELSE "THRESHOLD"])
            ELSE row
      [] OTHER -> row

\* _handle_reader.
handle_reader(btn, st, et, row) ==
    CASE btn = "A" -> update_state(row, [scroll_step |-> st.scroll_step - 1])
      [] btn = "B" -> update_state(row, [scroll_step |-> st.scroll_step + 1])
      [] btn = "F" -> update_state(row, [current_page |-> st.current_page + 1, scroll_step |-> 0])
      [] btn = "C" -> update_state(row, [ current_page |-> Max(0, st.current_page - 1),
                                          scroll_step  |-> 0 ])
      [] btn = "D" -> update_state(row, [mode |-> "BOOKS", cursor_index |-> 0])
      [] btn = "E" ->
            IF et = "single"
            THEN update_state(row, [orientation |-> IF st.orientation = 0 THEN 1 ELSE 0])
            ELSE IF et = "hold"
            THEN update_state(row, [dither_mode |-> IF st.dither_mode = "THRESHOLD"
                                                    THEN "FLOYD" ELSE "THRESHOLD"])
            ELSE row
      [] OTHER -> row

\* The row handle_input leaves behind for one event; fetched is what the
\* content source returned to the handler's await (read only on button C
\* outside READER).
dispatch(btn, et, st, row, fetched) ==
    IF st.mode # "READER" /\ btn \in {"A", "B"}
    THEN global_navigation(btn, st, row)
    ELSE CASE st.mode = "LIBRARIES" -> handle_libraries(btn, st, row, fetched)
           [] st.mode = "SERIES"    -> handle_series(btn, st, row, fetched)
           [] st.mode = "BOOKS"     -> handle_books(btn, st, row, fetched)
           [] st.mode = "READER"    -> handle_reader(btn, st, et, row)
           [] OTHER                 -> row

\* The handler awaits the content source exactly when it selects in a list.
Fetches(btn, st) == st.mode # "READER" /\ btn = "C"

\* The unbounded counters stay inside the model's bounds.
WithinBounds(btn, st) ==
    /\ (st.mode # "READER" /\ btn = "B") => st.cursor_index < MaxCursor
    /\ (st.mode = "READER" /\ btn = "A") => st.scroll_step > -MaxStep
    /\ (st.mode = "READER" /\ btn = "B") => st.scroll_step < MaxStep
    /\ (st.mode = "READER" /\ btn = "F") => st.current_page < MaxPage

\* ---------------------------------------------------------- render engine
\* modules/services/html_engine.py.  A render call runs on the event loop
\* and gives up control at every await; each step below runs from one await
\* to the next.

\* The request handlers that may be inside a render call at the same time.
Tasks == 1..2

\* Viewport of the display: HTMLEngine.width x HTMLEngine.height in
\* landscape, turned in portrait.
view_w(orientation) == IF orientation = 1 THEN 300 ELSE 400

view_h(orientation) == IF orientation = 1 THEN 400 ELSE 300

\* Variant: the quotient is rounded down.
Ceil_floor(a, b) == a \div b

\* math.ceil(a / b) for a >= 0, b > 0.
Ceil(a, b) == (a + b - 1) \div b

\* HTMLEngine.__init__; None is written 0, the empty dict is the function
\* with the empty domain.  cached_content is history: the document the
\* cached entry was rendered from; no step reads it.
HTMLEngine_init ==
    [ browser            |-> 0,
      context            |-> 0,
      cache              |-> [k \in {} |-> <<>>],
      current_chapter_id |-> 0,
      cached_content     |-> 0 ]

\* What a call returned; n is the step count, page count or scroll offset.
NoResult == [kind |-> "none", n |-> 0]

\* A handler outside any render call.
IdleTask ==
    [ pc           |-> "idle",
      call         |-> "-",
      chapter_id   |-> 0,
      html_content |-> 0,
      scroll_step  |-> 0,
      orientation  |-> 0,
      dither_mode  |-> "THRESHOLD",
      page         |-> FALSE,
      total_height |-> 0,
      y            |-> 0,
      pages        |-> <<>>,
      shots        |-> 0,
      evicted      |-> {},
      failed_at    |-> "-",
      exit         |-> "-",
      result       |-> NoResult ]

\* A handle_input call that has not begun.
IdleCall == [pc |-> "idle", btn |-> "-", et |-> "-", st |-> init_db, fetched |-> <<>>]

\* No "current view" request has been made.
IdleView ==
    [ pc        |-> "idle",
      began     |-> [page |-> 0, scroll_step |-> 0],
      probe     |-> [called |-> FALSE, page |-> 0, scroll_step |-> 0, n |-> 0],
      persisted |-> [page |-> 0, scroll_step |-> 0],
      height    |-> -1,
      rendered  |-> {},
      advanced  |-> FALSE,
      served    |-> [page |-> 0, scroll_step |-> 0] ]

\* No stateless function is being called.
NoInvocation == [fn |-> "-"]

\* ---------------------------------------------------------------- actions
Init ==
    /\ db = init_db
    /\ state = init_db
    /\ button = "-"
    /\ event_type = "-"
    /\ items = <<>>
    /\ engine = HTMLEngine_init
    /\ chromium = [launches |-> 0, contexts |-> 0, open_pages |-> 0]
    /\ tasks = [t \in Tasks |-> IdleTask]
    /\ calls_made = 0
    /\ handlers = [base |-> init_db, calls |-> [t \in Tasks |-> IdleCall]]
    /\ view = IdleView
    /\ invocation = NoInvocation

\* WorkflowManager.handle_input(button, event_type), start to return.
handle_input(btn, et) ==
    /\ WithinBounds(btn, db)
    /\ state' = db
    /\ button' = btn
    /\ event_type' = et
    /\ \E fetched \in (IF Fetches(btn, db) THEN Lists ELSE {<<>>}) :
          /\ items' = fetched
          /\ db' = dispatch(btn, et, db, db, fetched)
    /\ UNCHANGED engine_vars
    /\ UNCHANGED <<handlers, view, invocation>>

\* The event types that make a difference for a button: only E is handled
\* differently when held.
TypesOf(btn) == IF btn = "E" THEN EventTypes ELSE {"single"}

Next == \E btn \in Buttons, et \in EventTypes : handle_input(btn, et)

Spec == Init /\ [][Next]_vars

\* ------------------------------------------------- overlapping button events
\* handle_input is a coroutine: it runs without interruption up to the await
\* of the content source (button C in a list mode) and from there to its
\* return.  Another event may be handled while it is suspended.

\* handle_input(btn, et) of handler t begins: it reads the row and either
\* suspends at the fetch or runs to its return.  handlers.base keeps the row
\* as it was when no call was in progress.
begin_input(t, btn, et) ==
    /\ handlers.calls[t].pc = "idle"
    /\ WithinBounds(btn, db)
    /\ LET alone == \A u \in Tasks : handlers.calls[u].pc = "idle"
           call  == [pc      |-> IF Fetches(btn, db) THEN "fetch" ELSE "done",
                     btn     |-> btn,
                     et      |-> et,
                     st      |-> db,
                     fetched |-> <<>>]
       IN  handlers' = [base  |-> IF alone THEN db ELSE handlers.base,
                        calls |-> [handlers.calls EXCEPT ![t] = call]]
    /\ db' = IF Fetches(btn, db) THEN db ELSE dispatch(btn, et, db, db, <<>>)
    /\ UNCHANGED <<state, button, event_type, items, view, invocation>>
    /\ UNCHANGED engine_vars

\* The content source answers handler t with fetched; the handler runs to its
\* return with the row it read before the await.
resume_input(t, fetched) ==
    /\ handlers.calls[t].pc = "fetch"
    /\ LET call == handlers.calls[t]
       IN  /\ db' = dispatch(call.btn, call.et, call.st, db, fetched)
           /\ handlers' = [handlers EXCEPT !.calls[t].pc = "done",
                                           !.calls[t].fetched = fetched]
    /\ UNCHANGED <<state, button, event_type, items, view, invocation>>
    /\ UNCHANGED engine_vars

\* Every call in progress has returned; the handlers are free again.
all_returned ==
    /\ \E t \in Tasks : handlers.calls[t].pc = "done"
    /\ \A t \in Tasks : handlers.calls[t].pc # "fetch"
    /\ handlers' = [handlers EXCEPT !.calls = [t \in Tasks |-> IdleCall]]
    /\ UNCHANGED <<db, state, button, event_type, items, view, invocation>>
    /\ UNCHANGED engine_vars

NextOverlap ==
    \/ \E t \in Tasks, btn \in Buttons : \E et \in TypesOf(btn) : begin_input(t, btn, et)
    \/ \E t \in Tasks, fetched \in Lists : resume_input(t, fetched)
    \/ all_returned

SpecOverlap == Init /\ [][NextOverlap]_vars

\* ------------------------------------------------------------ engine steps
\* document.body.scrollHeight as the browser may report it.
Heights == {100 * k : k \in 0..MaxHeightUnits}

\* The documents (html_content) and chapter ids the callers pass.
Contents == 1..MaxId

ChapterIds == 1..MaxId

\* scroll_step as the callers pass it: the probe -1, a raw negative step,
\* and the steps from the top.
ScrollSteps == (-2)..MaxScroll

\* Renderer.process_external_image(self, img, dither_mode, orientation):
\* the parameters after self, none with a default.
process_external_image_params == <<"img", "dither_mode", "orientation">>

\* The call binds when it passes one argument per parameter; otherwise
\* Python raises TypeError.
Binds(args) == Len(args) = Len(process_external_image_params)

\* The arguments render_chapter and render_scroll_view pass.
render_chapter_args == <<"img", "FLOYD">>

render_scroll_view_args == <<"img", "dither_mode", "orientation">>

Running(t) == tasks[t].pc \notin {"idle", "done"}

\* The call ends by raising; an open page stays open.
Raise(task, where) ==
    [task EXCEPT !.pc = "done", !.exit = "raised",
                 !.result = [kind |-> "raised", n |-> 0], !.failed_at = where]

\* "if not self.browser: await self.start()" followed by
\* "self.context.new_page()": where the call is after its first synchronous
\* stretch.
Enter(task) ==
    IF engine.browser = 0 THEN [task EXCEPT !.pc = "start"]
    ELSE IF engine.context = 0 THEN Raise(task, "-")
    ELSE [task EXCEPT !.pc = "new_page"]

\* render_scroll_view(html_content, scroll_step, renderer, orientation,
\* dither_mode) is called.
render_scroll_view_call(t, c, step, o, d) ==
    /\ ~Running(t)
    /\ calls_made < MaxCalls
    /\ calls_made' = calls_made + 1
    /\ tasks' = [tasks EXCEPT ![t] =
                   Enter([IdleTask EXCEPT !.call = "render_scroll_view",
                                          !.html_content = c, !.scroll_step = step,
                                          !.orientation = o, !.dither_mode = d])]
    /\ UNCHANGED <<engine, chromium>>
    /\ UNCHANGED nav_vars

\* render_chapter(chapter_id, html_content, renderer) is called.
render_chapter_call(t, id, c) ==
    /\ ~Running(t)
    /\ calls_made < MaxCalls
    /\ calls_made' = calls_made + 1
    /\ LET task == [IdleTask EXCEPT !.call = "render_chapter",
                                    !.chapter_id = id, !.html_content = c]
       IN  tasks' = [tasks EXCEPT ![t] =
              IF engine.current_chapter_id = id /\ id \in DOMAIN engine.cache
              THEN [task EXCEPT !.pc = "done", !.exit = "cached",
                                !.result = [kind |-> "count", n |-> Len(engine.cache[id])]]
              ELSE Enter(task)]
    /\ UNCHANGED <<engine, chromium>>
    /\ UNCHANGED nav_vars

\* start(): async_playwright().start() has completed.
start_playwright(t) ==
    /\ tasks[t].pc = "start"
    /\ tasks' = [tasks EXCEPT ![t].pc = "launch"]
    /\ UNCHANGED <<engine, chromium, calls_made>>
    /\ UNCHANGED nav_vars

\* start(): chromium.launch() has completed; self.browser is assigned.
launch(t) ==
    /\ tasks[t].pc = "launch"
    /\ chromium' = [chromium EXCEPT !.launches = chromium.launches + 1]
    /\ engine' = [engine EXCEPT !.browser = chromium.launches + 1]
    /\ tasks' = [tasks EXCEPT ![t].pc = "new_context"]
    /\ UNCHANGED calls_made
    /\ UNCHANGED nav_vars

\* start(): browser.new_context() has completed; self.context is assigned
\* and the caller goes on to self.context.new_page().
new_context(t) ==
    /\ tasks[t].pc = "new_context"
    /\ chromium' = [chromium EXCEPT !.contexts = chromium.contexts + 1]
    /\ engine' = [engine EXCEPT !.context = chromium.contexts + 1]
    /\ tasks' = [tasks EXCEPT ![t].pc = "new_page"]
    /\ UNCHANGED calls_made
    /\ UNCHANGED nav_vars

\* context.new_page() has completed.
new_page(t) ==
    /\ tasks[t].pc = "new_page"
    /\ chromium' = [chromium EXCEPT !.open_pages = chromium.open_pages + 1]
    /\ tasks' = [tasks EXCEPT ![t].page = TRUE,
                              ![t].pc = IF tasks[t].call = "render_scroll_view"
                                        THEN "set_viewport" ELSE "set_content"]
    /\ UNCHANGED <<engine, calls_made>>
    /\ UNCHANGED nav_vars

\* page.set_viewport_size() has completed (render_scroll_view only).
set_viewport_size(t) ==
    /\ tasks[t].pc = "set_viewport"
    /\ tasks' = [tasks EXCEPT ![t].pc = "set_content"]
    /\ UNCHANGED <<engine, chromium, calls_made>>
    /\ UNCHANGED nav_vars

\* page.set_content() has completed.
set_content(t) ==
    /\ tasks[t].pc = "set_content"
    /\ tasks' = [tasks EXCEPT ![t].pc = "wait_load"]
    /\ UNCHANGED <<engine, chromium, calls_made>>
    /\ UNCHANGED nav_vars

\* page.wait_for_load_state("networkidle") has completed.
wait_for_load_state(t) ==
    /\ tasks[t].pc = "wait_load"
    /\ tasks' = [tasks EXCEPT ![t].pc = "measure"]
    /\ UNCHANGED <<engine, chromium, calls_made>>
    /\ UNCHANGED nav_vars

\* Variant: only a step strictly past the end of the content is out of bounds.
check_bounds_strict(task, total_height) ==
    LET current_y == task.scroll_step * view_h(task.orientation)
    IN  IF current_y > total_height /\ task.scroll_step > 0
        THEN [task EXCEPT !.total_height = total_height, !.pc = "close", !.exit = "bounds"]
        ELSE IF task.scroll_step = -1
        THEN [task EXCEPT !.total_height = total_height, !.pc = "close", !.exit = "probe"]
        ELSE [task EXCEPT !.total_height = total_height, !.pc = "scroll"]

\* render_scroll_view, "3. Check Bounds": where the call goes once the
\* height is known.
check_bounds(task, total_height) ==
    LET current_y == task.scroll_step * view_h(task.orientation)
    IN  IF current_y >= total_height /\ task.scroll_step > 0
        THEN [task EXCEPT !.total_height = total_height, !.pc = "close", !.exit = "bounds"]
        ELSE IF task.scroll_step = -1
        THEN [task EXCEPT !.total_height = total_height, !.pc = "close", !.exit = "probe"]
        ELSE [task EXCEPT !.total_height = total_height, !.pc = "scroll"]

\* render_chapter, "for y in range(0, total_height, self.height)": the loop
\* is entered at y = 0 when the range is not empty.
first_slice(task, total_height) ==
    IF 0 < total_height
    THEN [task EXCEPT !.total_height = total_height, !.y = 0, !.pc = "screenshot"]
    ELSE [task EXCEPT !.total_height = total_height, !.pc = "close", !.exit = "rendered"]

\* page.evaluate("document.body.scrollHeight") has returned total_height.
measure(t, total_height) ==
    /\ tasks[t].pc = "measure"
    /\ tasks' = [tasks EXCEPT ![t] =
                   IF tasks[t].call = "render_scroll_view"
                   THEN check_bounds(tasks[t], total_height)
                   ELSE first_slice(tasks[t], total_height)]
    /\ UNCHANGED <<engine, chromium, calls_made>>
    /\ UNCHANGED nav_vars

\* page.evaluate("window.scrollTo(...)") has completed (render_scroll_view).
scroll_to(t) ==
    /\ tasks[t].pc = "scroll"
    /\ tasks' = [tasks EXCEPT ![t].pc = "screenshot"]
    /\ UNCHANGED <<engine, chromium, calls_made>>
    /\ UNCHANGED nav_vars

\* render_chapter, one turn of the loop after its screenshot: the slice is
\* post-processed and appended, and the loop goes on or ends.
next_slice(task) ==
    IF Binds(render_chapter_args)
    THEN LET y2 == task.y + view_h(0)
         IN  [task EXCEPT !.shots = task.shots + 1,
                          !.pages = Append(task.pages,
                                           [content |-> task.html_content, y |-> task.y]),
                          !.y = y2,
                          !.pc = IF y2 < task.total_height THEN "screenshot" ELSE "close",
                          !.exit = IF y2 < task.total_height THEN "-" ELSE "rendered"]
    ELSE Raise([task EXCEPT !.shots = task.shots + 1], "-")

\* page.screenshot() has returned the PNG.
screenshot(t) ==
    /\ tasks[t].pc = "screenshot"
    /\ tasks' = [tasks EXCEPT ![t] =
                   IF tasks[t].call = "render_scroll_view"
                   THEN [tasks[t] EXCEPT !.shots = tasks[t].shots + 1,
                                         !.pc = "close", !.exit = "frame"]
                   ELSE next_slice(tasks[t])]
    /\ UNCHANGED <<engine, chromium, calls_made>>
    /\ UNCHANGED nav_vars

\* What the call returns once its page is closed.
return_value(task) ==
    LET h == view_h(task.orientation)
    IN  CASE task.exit = "bounds" -> [kind |-> "NEXT", n |-> 0]
          [] task.exit = "capture_error" -> [kind |-> "NEXT", n |-> 0]
          [] task.exit = "probe" ->
                [kind |-> "max_steps", n |-> Max(0, Ceil(task.total_height, h) - 1)]
          [] task.exit = "frame" ->
                IF Binds(render_scroll_view_args)
                THEN [kind |-> "frame", n |-> Max(task.scroll_step * h - 40, 0)]
                ELSE [kind |-> "raised", n |-> 0]
          [] task.exit = "rendered" -> [kind |-> "count", n |-> Len(task.pages)]
          [] OTHER -> NoResult

\* Variant: the rendered pages are stored under their id in the existing
\* dict instead of replacing it.
close_keep_entries(t) ==
    /\ tasks[t].pc = "close"
    /\ chromium' = [chromium EXCEPT !.open_pages = chromium.open_pages - 1]
    /\ tasks' = [tasks EXCEPT ![t].page = FALSE, ![t].pc = "done",
                              ![t].result = return_value(tasks[t]),
                              ![t].evicted = {}]
    /\ engine' = IF tasks[t].exit = "rendered"
                 THEN [engine EXCEPT !.cache =
                          [k \in DOMAIN engine.cache \cup {tasks[t].chapter_id} |->
                              IF k = tasks[t].chapter_id THEN tasks[t].pages
                              ELSE engine.cache[k]],
                                     !.current_chapter_id = tasks[t].chapter_id,
                                     !.cached_content = tasks[t].html_content]
                 ELSE engine
    /\ UNCHANGED calls_made
    /\ UNCHANGED nav_vars

\* page.close() has completed; the call runs to its return.  render_chapter
\* replaces the cache on the way; evicted records the chapter ids whose
\* entries the assignment dropped.
close(t) ==
    /\ tasks[t].pc = "close"
    /\ chromium' = [chromium EXCEPT !.open_pages = chromium.open_pages - 1]
    /\ tasks' = [tasks EXCEPT ![t].page = FALSE, ![t].pc = "done",
                              ![t].result = return_value(tasks[t]),
                              ![t].evicted = IF tasks[t].exit = "rendered"
                                             THEN DOMAIN engine.cache \ {tasks[t].chapter_id}
                                             ELSE {}]
    /\ engine' = IF tasks[t].exit = "rendered"
                 THEN [engine EXCEPT !.cache = [k \in {tasks[t].chapter_id} |-> tasks[t].pages],
                                     !.current_chapter_id = tasks[t].chapter_id,
                                     !.cached_content = tasks[t].html_content]
                 ELSE engine
    /\ UNCHANGED calls_made
    /\ UNCHANGED nav_vars

\* The awaits on the browser that may raise (a timeout, a crashed target).
\* page.close() swallows the error of a target that is already gone.
Failable ==
    {"start", "launch", "new_context", "new_page", "set_viewport", "set_content",
     "wait_load", "measure", "scroll", "screenshot"}

\* Variant: the screenshot is taken outside any try.
fail_unhandled(t) ==
    /\ tasks[t].pc \in Failable
    /\ tasks' = [tasks EXCEPT ![t] = Raise(tasks[t], tasks[t].pc)]
    /\ UNCHANGED <<engine, chromium, calls_made>>
    /\ UNCHANGED nav_vars

\* The pending await raises.  Only the screenshot of render_scroll_view is
\* inside a try: its handler closes the page and returns "NEXT".
fail(t) ==
    /\ tasks[t].pc \in Failable
    /\ tasks' = [tasks EXCEPT ![t] =
                   IF tasks[t].call = "render_scroll_view" /\ tasks[t].pc = "screenshot"
                   THEN [tasks[t] EXCEPT !.pc = "close", !.exit = "capture_error",
                                         !.failed_at = "screenshot"]
                   ELSE Raise(tasks[t], tasks[t].pc)]
    /\ UNCHANGED <<engine, chromium, calls_made>>
    /\ UNCHANGED nav_vars

\* Python's None where a frame is expected.
None == [content |-> 0, y |-> -1]

\* HTMLEngine.get_page_image(chapter_id, page_index).
get_page_image(chapter_id, page_index) ==
    IF chapter_id \in DOMAIN engine.cache
    THEN LET pages == engine.cache[chapter_id]
         IN  IF 0 <= page_index /\ page_index < Len(pages)
             THEN pages[page_index + 1]
             ELSE None
    ELSE None

\* The steps of the render call of handler t, whatever the call; heights are
\* the document heights the browser may report.
Step(t, heights) ==
    \/ start_playwright(t)
    \/ launch(t)
    \/ new_context(t)
    \/ new_page(t)
    \/ set_viewport_size(t)
    \/ set_content(t)
    \/ wait_for_load_state(t)
    \/ \E total_height \in heights : measure(t, total_height)
    \/ scroll_to(t)
    \/ screenshot(t)
    \/ close(t)
    \/ fail(t)

\* One handler renders, one call after the other, with every input.
NextEngine ==
    \/ \E c \in Contents, step \in ScrollSteps, o \in {0, 1}, d \in DitherModes :
          render_scroll_view_call(1, c, step, o, d)
    \/ \E id \in ChapterIds, c \in Contents : render_chapter_call(1, id, c)
    \/ Step(1, Heights)

SpecEngine == Init /\ [][NextEngine]_vars

\* Two handlers render at the same time; their steps interleave at the
\* awaits.  The scroll view is asked for the probe and for the first step of
\* one document, and the documents are empty or of the largest height.
NextConcurrent ==
    \/ \E t \in Tasks, step \in {-1, 0}, o \in {0, 1} :
          render_scroll_view_call(t, 1, step, o, "THRESHOLD")
    \/ \E t \in Tasks, id \in ChapterIds, c \in Contents : render_chapter_call(t, id, c)
    \/ \E t \in Tasks : Step(t, {0, 100 * MaxHeightUnits})

SpecConcurrent == Init /\ [][NextConcurrent]_vars

\* ----------------------------------------------------------- current view
\* The "current view" request of the reader: it reads the device state and
\* drives render_scroll_view.  Each render call is taken as a whole here.

\* The ways a render_scroll_view call on a document of height total_height
\* can end once the height is measured.
EndsAt(step, o, total_height) ==
    LET k == check_bounds([IdleTask EXCEPT !.call = "render_scroll_view",
                                           !.scroll_step = step, !.orientation = o],
                          total_height)
    IN  IF k.pc = "close" THEN {k}
        ELSE {[k EXCEPT !.exit = "frame"], [k EXCEPT !.exit = "capture_error"]}

\* What the call can return or raise.
Outcomes(step, o, total_height) ==
    {return_value(k) : k \in EndsAt(step, o, total_height)}
       \cup {[kind |-> "raised", n |-> 0]}

\* No view request is being answered.
ViewQuiet == view.pc = "idle"

HandlersIdle == \A t \in Tasks : handlers.calls[t].pc = "idle"

\* A view is requested in READER.  A negative scroll_step asks for the
\* two-phase resolution, which needs a previous content unit.
view_request ==
    /\ ViewQuiet
    /\ HandlersIdle
    /\ db.mode = "READER"
    /\ db.scroll_step >= 0 \/ db.current_page > 0
    /\ view' = [IdleView EXCEPT
                  !.pc = IF db.scroll_step < 0 THEN "probe" ELSE "render",
                  !.began = [page |-> db.current_page, scroll_step |-> db.scroll_step]]
    /\ UNCHANGED <<db, state, button, event_type, items, handlers, invocation>>
    /\ UNCHANGED engine_vars

\* Phase one: the previous content unit is probed with scroll_step = -1 and
\* (previous unit, previousMaxStep) is persisted.
view_probe(total_height) ==
    /\ view.pc = "probe"
    /\ \E out \in Outcomes(-1, db.orientation, total_height) :
          IF out.kind = "max_steps"
          THEN /\ db' = update_state(db, [ current_page |-> db.current_page - 1,
                                           scroll_step  |-> out.n ])
               /\ view' = [view EXCEPT
                             !.pc = "render",
                             !.probe = [called |-> TRUE, page |-> db.current_page - 1,
                                        scroll_step |-> -1, n |-> out.n],
                             !.persisted = [page |-> db.current_page - 1,
                                            scroll_step |-> out.n],
                             !.height = total_height]
          ELSE /\ view' = [view EXCEPT !.pc = "failed"]
               /\ UNCHANGED db
    /\ UNCHANGED <<state, button, event_type, items, handlers, invocation>>
    /\ UNCHANGED engine_vars

\* Phase two, and the only phase of a forward view: the persisted step of the
\* persisted content unit is rendered.  "NEXT" advances to the next content
\* unit at scroll_step = 0 and renders again.
view_render(total_height) ==
    /\ view.pc = "render"
    /\ view.height \in {-1, total_height}
    /\ \E out \in Outcomes(db.scroll_step, db.orientation, total_height) :
          CASE out.kind = "frame" ->
                  /\ view' = [view EXCEPT
                                !.pc = "served",
                                !.rendered = view.rendered \cup {db.scroll_step},
                                !.served = [page |-> db.current_page,
                                            scroll_step |-> db.scroll_step]]
                  /\ UNCHANGED db
            [] out.kind = "NEXT" ->
                  /\ db.current_page < MaxPage
                  /\ db' = update_state(db, [ current_page |-> db.current_page + 1,
                                              scroll_step  |-> 0 ])
                  /\ view' = [view EXCEPT !.height = -1, !.advanced = TRUE]
            [] OTHER ->
                  /\ view' = [view EXCEPT !.pc = "failed"]
                  /\ UNCHANGED db
    /\ UNCHANGED <<state, button, event_type, items, handlers, invocation>>
    /\ UNCHANGED engine_vars

\* The response, a frame or an error, has been sent.
view_sent ==
    /\ view.pc \in {"served", "failed"}
    /\ view' = IdleView
    /\ UNCHANGED <<db, state, button, event_type, items, handlers, invocation>>
    /\ UNCHANGED engine_vars

\* Button events and view requests of one device, one after the other.
NextView ==
    \/ /\ ViewQuiet
       /\ \E btn \in Buttons : \E et \in TypesOf(btn) : begin_input(1, btn, et)
    \/ \E fetched \in {ItemList(MaxListLen, 0)} : resume_input(1, fetched)
    \/ all_returned
    \/ view_request
    \/ \E total_height \in Heights : view_probe(total_height)
    \/ \E total_height \in Heights : view_render(total_height)
    \/ view_sent

SpecView == Init /\ [][NextView]_vars

\* ------------------------------------------------------------- bit packer
\* modules/services/renderer.py, Renderer._pack_2bit.

\* Mode-P images of at most MaxPixels pixels; data is img.getdata(), the
\* palette indices in row-major order.
Sizes == {z \in (1..MaxPixels) \X (1..MaxPixels) : z[1] * z[2] <= MaxPixels}

Images ==
    UNION {[width : {z[1]}, height : {z[2]}, data : [1..(z[1] * z[2]) -> 0..MaxIndex]] :
             z \in Sizes}

\* pixels[i] & 3 for an index that is not negative.
And3(p) == p % 4

\* The byte of the four pixels from position i on (0-based).
byte_val(pixels, i) ==
    And3(pixels[i + 1]) * 64 + And3(pixels[i + 2]) * 16
        + And3(pixels[i + 3]) * 4 + And3(pixels[i + 4])

\* _pack_2bit: a bytearray of len(pixels) // 4 zero bytes is filled by the
\* loop "for i in range(0, len(pixels), 4)", which reads pixels[i] ..
\* pixels[i + 3]; a read past the end raises IndexError.
pack_2bit(img) ==
    LET pixels == img.data
        starts == {i \in 0..(Len(pixels) - 1) : i % 4 = 0}
    IN  IF \E i \in starts : i + 3 >= Len(pixels)
        THEN [raised |-> "IndexError", bytes |-> <<>>]
        ELSE [raised |-> "-",
              bytes  |-> [b \in 1..(Len(pixels) \div 4) |-> byte_val(pixels, 4 * (b - 1))]]

\* Nothing is being called.
Uncalled == invocation.fn = "-"

\* renderer._pack_2bit(img) is called and runs to its end.
pack_2bit_call(img) ==
    /\ Uncalled
    /\ invocation' = [fn |-> "_pack_2bit", img |-> img, out |-> pack_2bit(img)]
    /\ UNCHANGED <<db, state, button, event_type, items, handlers, view>>
    /\ UNCHANGED engine_vars

\* The caller has the outcome of the call.
returned ==
    /\ ~Uncalled
    /\ invocation' = NoInvocation
    /\ UNCHANGED <<db, state, button, event_type, items, handlers, view>>
    /\ UNCHANGED engine_vars

\* -------------------------------------------------------------- dithering
\* modules/image/processor.py, ImageProcessor._dither_4level_floyd_steinberg.

\* The 8-bit intensities of a grayscale image.
Intensities == 0..255

\* _quantize_4level(value).
quantize_4level(value) ==
    IF value < 64 THEN 0
    ELSE IF value < 128 THEN 85
    ELSE IF value < 192 THEN 170
    ELSE 255

\* min(255, max(0, v)).
Clamp(v) == IF v < 0 THEN 0 ELSE IF v > 255 THEN 255 ELSE v

\* One turn of the inner loop at a pixel (x, y) whose four neighbours are
\* inside the image: the pixel is quantized and "error * k // 16" is added
\* to each neighbour, which is then clamped.  near holds the neighbours'
\* intensities before the turn.
diffuse(old_pixel, near) ==
    LET new_pixel == quantize_4level(old_pixel)
        error     == old_pixel - new_pixel
        added     == [ right        |-> (error * 7) \div 16,
                       bottom_left  |-> (error * 3) \div 16,
                       bottom       |-> (error * 5) \div 16,
                       bottom_right |-> (error * 1) \div 16 ]
    IN  [ new_pixel |-> new_pixel,
          error     |-> error,
          added     |-> added,
          near      |-> [k \in DOMAIN added |-> Clamp(near[k] + added[k])] ]

\* The neighbours' intensities the model tries: all black, all mid-gray,
\* all white.
Neighbourhoods ==
    {[right |-> v, bottom_left |-> v, bottom |-> v, bottom_right |-> v] : v \in {0, 128, 255}}

\* The loop of _dither_4level_floyd_steinberg takes one turn.
diffuse_call(old_pixel, near) ==
    /\ Uncalled
    /\ invocation' = [fn |-> "_dither_4level_floyd_steinberg",
                      old_pixel |-> old_pixel, before |-> near,
                      out |-> diffuse(old_pixel, near)]
    /\ UNCHANGED <<db, state, button, event_type, items, handlers, view>>
    /\ UNCHANGED engine_vars

\* -------------------------------------------------------------- list view
\* modules/services/renderer.py, Renderer.render_list_view.

\* Items per page.
max_visible_items == 9

\* Variant: the window start is not clamped at the end of the list.
render_list_view_unclamped_end(total_items, cursor_index) ==
    LET half_window == max_visible_items \div 2
        centered    == cursor_index - half_window
        start_index == IF total_items <= max_visible_items THEN 0
                       ELSE IF centered < 0 THEN 0 ELSE centered
        rows        == {start_index + i : i \in {j \in 0..(max_visible_items - 1) :
                                                    start_index + j < total_items}}
    IN  [ start_index |-> start_index,
          rows        |-> rows,
          selected    |-> {item_idx \in rows : item_idx = cursor_index},
          counter     |-> [position |-> cursor_index + 1, total |-> total_items] ]

\* Variant: the selection box is drawn on the row after the cursor.
render_list_view_select_next(total_items, cursor_index) ==
    LET half_window == max_visible_items \div 2
        centered    == cursor_index - half_window
        floored     == IF centered < 0 THEN 0 ELSE centered
        start_index == IF total_items <= max_visible_items THEN 0
                       ELSE IF floored + max_visible_items > total_items
                            THEN total_items - max_visible_items
                            ELSE floored
        rows        == {start_index + i : i \in {j \in 0..(max_visible_items - 1) :
                                                    start_index + j < total_items}}
    IN  [ start_index |-> start_index,
          rows        |-> rows,
          selected    |-> {item_idx \in rows : item_idx = cursor_index + 1},
          counter     |-> [position |-> cursor_index + 1, total |-> total_items] ]

\* render_list_view(title, items, cursor_index) with len(items) =
\* total_items: the first visible index, the indices of the rows drawn (the
\* loop breaks at the end of the list), the rows drawn with the selection
\* box, and the counter of the header.
render_list_view(total_items, cursor_index) ==
    LET half_window == max_visible_items \div 2
        centered    == cursor_index - half_window
        floored     == IF centered < 0 THEN 0 ELSE centered
        start_index == IF total_items <= max_visible_items THEN 0
                       ELSE IF floored + max_visible_items > total_items
                            THEN total_items - max_visible_items
                            ELSE floored
        rows        == {start_index + i : i \in {j \in 0..(max_visible_items - 1) :
                                                    start_index + j < total_items}}
    IN  [ start_index |-> start_index,
          rows        |-> rows,
          selected    |-> {item_idx \in rows : item_idx = cursor_index},
          counter     |-> [position |-> cursor_index + 1, total |-> total_items] ]

\* renderer.render_list_view is called with a list of total_items items and
\* the cursor as given.
render_list_view_call(total_items, cursor_index) ==
    /\ Uncalled
    /\ invocation' = [fn |-> "render_list_view", total_items |-> total_items,
                      cursor_index |-> cursor_index,
                      out |-> render_list_view(total_items, cursor_index)]
    /\ UNCHANGED <<db, state, button, event_type, items, handlers, view>>
    /\ UNCHANGED engine_vars

\* The "current view" request in a list mode: the caller fetches the live
\* list, clamps the stored cursor_index against its length and has the list
\* drawn.
current_list_view(total_items, cursor_index) ==
    render_list_view(total_items,
                     IF cursor_index < total_items THEN cursor_index ELSE total_items - 1)

\* A view is requested in a list mode whose live list is not empty.
current_list_view_call(total_items, cursor_index) ==
    /\ Uncalled
    /\ total_items > 0
    /\ invocation' = [fn |-> "current_list_view", total_items |-> total_items,
                      cursor_index |-> cursor_index,
                      out |-> current_list_view(total_items, cursor_index)]
    /\ UNCHANGED <<db, state, button, event_type, items, handlers, view>>
    /\ UNCHANGED engine_vars

\* ------------------------------------------------------ chapter endpoints
\* main.py, get_chapter_text and get_chapter_image.

\* Approximate characters per page.
chars_per_page == 800

\* A response, or an HTTPException raised, with its status code; pages is
\* the page count the detail of a 404 names.
Response(status, pages) == [raised |-> FALSE, status |-> status, pages |-> pages]

HTTPException(status, pages) == [raised |-> TRUE, status |-> status, pages |-> pages]

\* The body of the try of get_chapter_text: has_content tells whether the
\* resources carry "content", length is len(content).
get_chapter_text_try(has_content, length, page) ==
    IF ~has_content THEN HTTPException(404, 0)
    ELSE LET total_pages == (length + chars_per_page - 1) \div chars_per_page
             start_idx   == page * chars_per_page
         IN  IF start_idx >= length THEN HTTPException(404, total_pages)
             ELSE Response(200, total_pages)

\* The body of the try of get_chapter_image: total_pages is
\* metadata.get("pages", 0).
get_chapter_image_try(total_pages, page) ==
    IF page >= total_pages THEN HTTPException(404, total_pages)
    ELSE Response(200, total_pages)

\* "except Exception as e: raise HTTPException(status_code=500, ...)":
\* HTTPException is an Exception, so the handler takes whatever the body
\* raised.
except_Exception(outcome) ==
    IF outcome.raised THEN HTTPException(500, outcome.pages) ELSE outcome

get_chapter_text(has_content, length, page) ==
    except_Exception(get_chapter_text_try(has_content, length, page))

get_chapter_image(total_pages, page) ==
    except_Exception(get_chapter_image_try(total_pages, page))

\* len(content) of the chapters the model serves: around every page border.
Lengths ==
    {k * chars_per_page + d : k \in 0..MaxChapterPages, d \in {0, 1, chars_per_page - 1}}

\* The page query parameter (ge=0).
Pages == 0..(MaxChapterPages + 1)

\* GET /chapter/text/{chapter_id}?page=...
get_chapter_text_call(has_content, length, page) ==
    /\ Uncalled
    /\ invocation' = [fn |-> "get_chapter_text", has_content |-> has_content,
                      total_pages |-> (length + chars_per_page - 1) \div chars_per_page,
                      length |-> length, page |-> page,
                      out |-> get_chapter_text(has_content, length, page)]
    /\ UNCHANGED <<db, state, button, event_type, items, handlers, view>>
    /\ UNCHANGED engine_vars

\* GET /chapter/image/{chapter_id}?page=...
get_chapter_image_call(total_pages, page) ==
    /\ Uncalled
    /\ invocation' = [fn |-> "get_chapter_image", has_content |-> TRUE,
                      total_pages |-> total_pages, length |-> 0, page |-> page,
                      out |-> get_chapter_image(total_pages, page)]
    /\ UNCHANGED <<db, state, button, event_type, items, handlers, view>>
    /\ UNCHANGED engine_vars

\* The stateless functions are called one at a time with every input.
NextCalls ==
    \/ \E img \in Images : pack_2bit_call(img)
    \/ \E old_pixel \in Intensities, near \in Neighbourhoods : diffuse_call(old_pixel, near)
    \/ \E total_items \in 0..MaxTotal, cursor_index \in 0..MaxTotal :
          render_list_view_call(total_items, cursor_index)
    \/ \E total_items \in 0..MaxTotal, cursor_index \in 0..MaxTotal :
          current_list_view_call(total_items, cursor_index)
    \/ \E has_content \in BOOLEAN, length \in Lengths, page \in Pages :
          get_chapter_text_call(has_content, length, page)
    \/ \E total_pages \in 0..MaxChapterPages, page \in Pages :
          get_chapter_image_call(total_pages, page)
    \/ returned

SpecCalls == Init /\ [][NextCalls]_vars

\* An event has been handled: state, button, event_type and items describe it.
Handled == button \in Buttons

TypeOK ==
    /\ db.mode \in ModeSet
    /\ db.selected_library_id \in 0..MaxId
    /\ db.selected_series_id \in 0..MaxId
    /\ db.selected_book_id \in 0..MaxId
    /\ db.cursor_index \in 0..MaxCursor
    /\ db.current_page \in 0..MaxPage
    /\ db.scroll_step \in (-MaxStep)..MaxStep
    /\ db.orientation \in {0, 1}
    /\ db.dither_mode \in DitherModes

\* ------------------------------------------------------------------ claims
\* In the formulas below state is the row before the event handled last and
\* db the row after it.

\* The selectable list modes and the mode one step deeper / shallower.
Deeper(m) == Modes[Depth(m) + 1]

Shallower(m) == Modes[Depth(m) - 1]

\* C1: in LIBRARIES (resp. SERIES), button C with cursor_index below the
\* length of the fetched list sets mode to SERIES (resp. BOOKS), stores the
\* id of the item at cursor_index in selected_library_id (resp.
\* selected_series_id) and resets cursor_index to 0; from (LIBRARIES,
\* cursor 0), B pressed MaxCursor times and then C with a longer list gives
\* (SERIES, selected_library_id = items[MaxCursor].id, cursor 0), 0-based.
C1_SelectDescends ==
    (Handled /\ button = "C" /\ state.mode \in {"LIBRARIES", "SERIES"}
             /\ state.cursor_index < Len(items)) =>
        /\ db.mode = Deeper(state.mode)
        /\ db.cursor_index = 0
        /\ state.mode = "LIBRARIES" =>
              db.selected_library_id = items[state.cursor_index + 1].id
        /\ state.mode = "SERIES" =>
              db.selected_series_id = items[state.cursor_index + 1].id
        /\ state = [init_db EXCEPT !.cursor_index = MaxCursor] =>
              db = [init_db EXCEPT !.mode = "SERIES",
                                   !.selected_library_id = items[MaxCursor + 1].id,
                                   !.cursor_index = 0]

\* C1 witness: C was pressed at the root after MaxCursor presses of B, with
\* the cursor on the last library of the list, whose id differs from the id
\* of the row above it.
C1_Witness ==
    /\ button = "C"
    /\ state = [init_db EXCEPT !.cursor_index = MaxCursor]
    /\ Len(items) = MaxCursor + 1
    /\ items[MaxCursor + 1].id # items[MaxCursor].id
    /\ db.mode = "SERIES"
    /\ db.selected_library_id = items[MaxCursor + 1].id

\* C2: in BOOKS, button C with cursor_index below the length of the fetched
\* volume list moves to READER, stores the chapterId of the item at
\* cursor_index in selected_book_id, and leaves cursor_index at 0.
C2_OpenBookResetsCursor ==
    (Handled /\ button = "C" /\ state.mode = "BOOKS"
             /\ state.cursor_index < Len(items)) =>
        /\ db.mode = "READER"
        /\ db.selected_book_id = items[state.cursor_index + 1].chapterId
        /\ db.cursor_index = 0

\* C3: button D moves one mode shallower and sets cursor_index to 0, every
\* other column unchanged; at LIBRARIES it leaves the whole row unchanged.
C3_BackOneLevel ==
    (Handled /\ button = "D") =>
        IF state.mode = "LIBRARIES"
        THEN db = state
        ELSE db = [state EXCEPT !.mode = Shallower(state.mode), !.cursor_index = 0]

\* C3 witness: D was pressed in SERIES with the cursor off the first row and
\* a library selected.
C3_Witness ==
    /\ button = "D"
    /\ state.mode = "SERIES"
    /\ state.cursor_index > 0
    /\ state.selected_library_id # 0
    /\ db.mode = "LIBRARIES"
    /\ db.cursor_index = 0

\* C4: in READER, F sets current_page to current_page + 1 and scroll_step to
\* 0, C sets current_page to max(0, current_page - 1) and scroll_step to 0;
\* every other column is unchanged.
C4_PageJump ==
    (Handled /\ state.mode = "READER") =>
        /\ button = "F" =>
              db = [state EXCEPT !.current_page = state.current_page + 1,
                                 !.scroll_step = 0]
        /\ button = "C" =>
              db = [state EXCEPT !.current_page = Max(0, state.current_page - 1),
                                 !.scroll_step = 0]

\* C4 witness: F was pressed in READER while scrolled away from the top.
C4_Witness ==
    /\ button = "F"
    /\ state.mode = "READER"
    /\ state.scroll_step # 0
    /\ db.current_page = state.current_page + 1
    /\ db.scroll_step = 0

\* C5: in READER, A sets scroll_step to scroll_step - 1 and B to
\* scroll_step + 1, without floor or ceiling, every other column unchanged.
C5_FineScroll ==
    (Handled /\ state.mode = "READER") =>
        /\ button = "A" => db = [state EXCEPT !.scroll_step = state.scroll_step - 1]
        /\ button = "B" => db = [state EXCEPT !.scroll_step = state.scroll_step + 1]

\* C5 witness: A was pressed in READER at the top of a page and the step
\* went negative.
C5_Witness ==
    /\ button = "A"
    /\ state.mode = "READER"
    /\ state.scroll_step = 0
    /\ db.scroll_step = -1

\* C6: outside READER, for either event type, A sets cursor_index to
\* max(0, cursor_index - 1) and B to cursor_index + 1, every other column
\* unchanged.
C6_CursorMove ==
    (Handled /\ state.mode # "READER") =>
        /\ button = "A" =>
              db = [state EXCEPT !.cursor_index = Max(0, state.cursor_index - 1)]
        /\ button = "B" =>
              db = [state EXCEPT !.cursor_index = state.cursor_index + 1]

\* C6 witness: a held B moved the cursor in BOOKS from the last row the
\* model allows to the one after it.
C6_Witness ==
    /\ button = "B"
    /\ event_type = "hold"
    /\ state.mode = "BOOKS"
    /\ state.cursor_index = MaxCursor - 1
    /\ db.cursor_index = MaxCursor

\* The row after one more E event of type et on row r.
PressE(et, r) == dispatch("E", et, r, r, <<>>)

\* C7: in READER, E single flips orientation between 0 and 1 and E hold
\* flips dither_mode between THRESHOLD and FLOYD, nothing else changes;
\* the same E event applied twice restores the row; outside READER E
\* changes nothing.
C7_ToggleSettings ==
    /\ (Handled /\ button = "E") =>
          IF state.mode # "READER"
          THEN db = state
          ELSE /\ event_type = "single" =>
                     /\ db = [state EXCEPT !.orientation = 1 - state.orientation]
                     /\ db.orientation \in {0, 1}
               /\ event_type = "hold" =>
                     /\ db = [state EXCEPT !.dither_mode =
                                 CHOOSE d \in DitherModes : d # state.dither_mode]
                     /\ state.dither_mode \in DitherModes
    /\ \A et \in EventTypes : PressE(et, PressE(et, db)) = db

\* C7 witness: a single click on E in READER turned portrait back into
\* landscape.
C7_Witness ==
    /\ button = "E"
    /\ event_type = "single"
    /\ state.mode = "READER"
    /\ state.orientation = 1
    /\ db.orientation = 0

\* C8: in every reachable state cursor_index >= 0 and current_page >= 0.
C8_NonNegative ==
    /\ db.cursor_index >= 0
    /\ db.current_page >= 0

\* C8 witness: A was pressed in a list with the cursor already on row 0.
C8_Witness ==
    /\ button = "A"
    /\ state.mode # "READER"
    /\ state.cursor_index = 0
    /\ db.cursor_index = 0

\* C9: whenever an event changes current_page, scroll_step is 0 afterwards.
C9_PageChangeResetsScroll ==
    (Handled /\ db.current_page # state.current_page) => db.scroll_step = 0

\* C10: mode stays one of the four modes, each event moves it by at most
\* one position in the chain, deeper only by C, shallower only by D, and
\* into READER only from BOOKS by C.
C10_ModeChain ==
    /\ db.mode \in ModeSet
    /\ Handled =>
          /\ Depth(db.mode) - Depth(state.mode) \in {-1, 0, 1}
          /\ Depth(db.mode) > Depth(state.mode) => button = "C"
          /\ Depth(db.mode) < Depth(state.mode) => button = "D"
          /\ (db.mode = "READER" /\ state.mode # "READER") =>
                (state.mode = "BOOKS" /\ button = "C")

\* C10 witness: D was pressed in BOOKS and the mode is SERIES.
C10_Witness ==
    /\ button = "D"
    /\ state.mode = "BOOKS"
    /\ db.mode = "SERIES"

\* A device state the rest of the server can read: the nine columns, a mode
\* of the chain, a known orientation and dither mode.
WellFormed(r) ==
    /\ DOMAIN r = DOMAIN init_db
    /\ r.mode \in ModeSet
    /\ r.orientation \in {0, 1}
    /\ r.dither_mode \in DitherModes

\* C11: every button event, of either type and whatever list the content
\* source returns (the empty one included), is handled to its end: the list
\* is subscripted only inside it and the device state left is well formed.
\* The events the model's bounds withhold leave a well-formed state too.
C11_Total ==
    /\ WellFormed(db)
    /\ Handled =>
          ((Fetches(button, state) /\ state.cursor_index < Len(items)) =>
              (state.cursor_index + 1) \in DOMAIN items)
    /\ \A btn \in Buttons, et \in EventTypes :
          ~WithinBounds(btn, db) => WellFormed(dispatch(btn, et, db, db, <<>>))

\* C11 witness: C was handled in BOOKS against an empty volume list and the
\* row is as before.
C11_Witness ==
    /\ button = "C"
    /\ state.mode = "BOOKS"
    /\ items = <<>>
    /\ db = state

\* A render_scroll_view call of handler t that has ended.
ScrollViewDone(t) == tasks[t].call = "render_scroll_view" /\ tasks[t].pc = "done"

\* The call got past the measurement of the document height.
Measured(t) == tasks[t].exit \in {"bounds", "probe", "frame", "capture_error"}

\* C12: render_scroll_view returns "NEXT" from its bounds check whenever
\* scroll_step > 0 and scroll_step * H >= T, and the bounds check never
\* answers "NEXT" for scroll_step <= 0, whatever T is.
C12_NextPastEnd ==
    \A t \in Tasks :
       (ScrollViewDone(t) /\ Measured(t)) =>
          LET k == tasks[t]
              H == IF k.orientation = 1 THEN 400 ELSE 300
          IN  /\ (k.scroll_step > 0 /\ k.scroll_step * H >= k.total_height) =>
                    (k.exit = "bounds" /\ k.result.kind = "NEXT")
              /\ k.scroll_step <= 0 => k.exit # "bounds"
              /\ k.exit = "bounds" => k.scroll_step * H >= k.total_height

\* C12 witness: T = 900, landscape, scroll_step = 3 was answered "NEXT".
C12_Witness ==
    /\ ScrollViewDone(1)
    /\ tasks[1].total_height = 900
    /\ tasks[1].orientation = 0
    /\ tasks[1].scroll_step = 3
    /\ tasks[1].result.kind = "NEXT"

\* The number of viewports of height H needed to cover T pixels.
StepsToCover(T, H) == CHOOSE n \in 0..T : n * H >= T /\ (n = 0 \/ (n - 1) * H < T)

\* C13: for scroll_step = -1 a call that does not raise returns the integer
\* max(0, ceil(T / H) - 1), takes no screenshot and produces no frame.
C13_ProbeLastStep ==
    \A t \in Tasks :
       (ScrollViewDone(t) /\ tasks[t].scroll_step = -1 /\ tasks[t].exit # "raised") =>
          LET k == tasks[t]
              H == IF k.orientation = 1 THEN 400 ELSE 300
              n == StepsToCover(k.total_height, H)
          IN  /\ k.exit = "probe"
              /\ k.result = [kind |-> "max_steps", n |-> IF n = 0 THEN 0 ELSE n - 1]
              /\ k.shots = 0

\* C13 witness: the probe of a 900 pixel document in landscape returned 2.
C13_Witness ==
    /\ ScrollViewDone(1)
    /\ tasks[1].scroll_step = -1
    /\ tasks[1].total_height = 900
    /\ tasks[1].orientation = 0
    /\ tasks[1].result = [kind |-> "max_steps", n |-> 2]

\* C14: a render_scroll_view call whose screenshot failed returns "NEXT";
\* it does not raise.
C14_CaptureErrorIsNext ==
    \A t \in Tasks :
       (tasks[t].call = "render_scroll_view" /\ tasks[t].failed_at = "screenshot") =>
          /\ tasks[t].exit = "capture_error"
          /\ tasks[t].pc = "done" => tasks[t].result = [kind |-> "NEXT", n |-> 0]

\* C14 witness: the screenshot of step 0 of a 900 pixel document failed and
\* the call returned "NEXT".
C14_Witness ==
    /\ ScrollViewDone(1)
    /\ tasks[1].failed_at = "screenshot"
    /\ tasks[1].scroll_step = 0
    /\ tasks[1].total_height = 900
    /\ tasks[1].result.kind = "NEXT"

\* The stages of a render step on an open browser: opening the page, setting
\* the viewport, loading content, waiting for stability, measuring, scrolling,
\* capturing.
RenderStages ==
    {"new_page", "set_viewport", "set_content", "wait_load", "measure", "scroll",
     "screenshot"}

\* C15: a render call in which an await on the browser failed or timed out,
\* at whatever stage, ends with "NEXT" and not with an exception.
C15_FailForwardEverywhere ==
    \A t \in Tasks :
       (tasks[t].pc = "done" /\ tasks[t].failed_at \in RenderStages) =>
          tasks[t].result.kind = "NEXT"

\* Handler t is inside the load-measure-screenshot sequence of a render: its
\* page is open and its call has not ended.
InRender(t) == Running(t) /\ tasks[t].page

\* C17: at most one render is in flight against the browser: the
\* load-measure-screenshot sequences of two render calls never overlap.
C17_OneRenderInFlight ==
    \A t1, t2 \in Tasks : (InRender(t1) /\ InRender(t2)) => t1 = t2

\* A render_chapter call of handler t that has returned.
ChapterReturned(t) ==
    /\ tasks[t].call = "render_chapter"
    /\ tasks[t].pc = "done"
    /\ tasks[t].exit \in {"cached", "rendered"}

\* The page indices a caller may ask get_page_image for.
PageIndices == (-1)..(MaxHeightUnits + 1)

\* C19: after any sequence of render_chapter calls the cache holds the
\* frames of at most one chapter id, that id is current_chapter_id and is
\* the id of the last render_chapter call that returned; a chapter whose
\* entry a render dropped is answered None by get_page_image.
C19_SingleSlotCache ==
    /\ Cardinality(DOMAIN engine.cache) <= 1
    /\ DOMAIN engine.cache \subseteq {engine.current_chapter_id}
    /\ ChapterReturned(1) =>
          /\ DOMAIN engine.cache = {tasks[1].chapter_id}
          /\ engine.current_chapter_id = tasks[1].chapter_id
          /\ \A id \in tasks[1].evicted, i \in PageIndices : get_page_image(id, i) = None
    /\ \A id \in ChapterIds \ {engine.current_chapter_id}, i \in PageIndices :
          get_page_image(id, i) = None

\* C19 witness: a render of one chapter has dropped the entry of another.
C19_Witness ==
    /\ ChapterReturned(1)
    /\ tasks[1].exit = "rendered"
    /\ tasks[1].evicted # {}
    /\ tasks[1].chapter_id \notin tasks[1].evicted
    /\ DOMAIN engine.cache = {tasks[1].chapter_id}

\* C20: after render_chapter has returned for a chapter id and a document,
\* the cached entry of that id was rendered from that document, also when
\* the id was cached before from another document, and get_page_image
\* returns no frame of another document.
C20_ReplacedByNewContent ==
    ChapterReturned(1) =>
       /\ engine.cached_content = tasks[1].html_content
       /\ \A i \in PageIndices :
             get_page_image(tasks[1].chapter_id, i) # None =>
                get_page_image(tasks[1].chapter_id, i).content = tasks[1].html_content

\* The row after event e is handled alone on row r with the list l.
Alone(r, e, l) == dispatch(e.btn, e.et, r, r, l)

\* The rows two events can leave when handled one after the other from row
\* r, in either order, whatever the content source returns.
OneAfterTheOther(r, e1, e2) ==
    {Alone(Alone(r, e1, l1), e2, l2) : l1 \in Lists, l2 \in Lists}
       \cup {Alone(Alone(r, e2, l1), e1, l2) : l1 \in Lists, l2 \in Lists}

\* C18: when two handle_input calls that began while the other was in
\* progress have both returned, the device state is one that handling the
\* two events one after the other, in some order, produces.
C18_NoStaleWrite ==
    (\A t \in Tasks : handlers.calls[t].pc = "done") =>
        db \in OneAfterTheOther(handlers.base, handlers.calls[1], handlers.calls[2])

C28_MissChangesNothing ==
    (Handled /\ button = "C" /\ state.mode \in {"LIBRARIES", "SERIES", "BOOKS"}
             /\ state.cursor_index >= Len(items)) =>
        db = state

\* C28 witness: C was pressed in BOOKS with the cursor on the last row the
\* model reaches and a volume list of one item came back.
C28_Witness ==
    /\ button = "C"
    /\ state.mode = "BOOKS"
    /\ state.cursor_index = MaxCursor
    /\ Len(items) = 1
    /\ db = state
    /\ db.cursor_index = MaxCursor

\* The two bits of byte b that hold the k-th (0-based) of its four pixels,
\* the first pixel in bits 7..6.
Unpack(b, k) == (b \div (2 ^ (6 - 2 * k))) % 4

\* C21: _pack_2bit is total and round-trips: for every width, height and
\* index sequence (indices above 3 included) it returns
\* ceil(width * height * 2 / 8) bytes without error, pixel i is in bits
\* 7 - 2 * (i mod 4) .. 6 - 2 * (i mod 4) of byte i div 4, unpacking gives
\* index & 3, and the unused bits of the last byte are 0.
C21_PackRoundTrip ==
    invocation.fn = "_pack_2bit" =>
        LET img == invocation.img
            n   == img.width * img.height
            out == invocation.out
        IN  /\ out.raised = "-"
            /\ Len(out.bytes) = (n * 2 + 7) \div 8
            /\ \A i \in 0..(n - 1) :
                  Unpack(out.bytes[(i \div 4) + 1], i % 4) = img.data[i + 1] % 4
            /\ \A i \in n..(4 * Len(out.bytes) - 1) :
                  Unpack(out.bytes[(i \div 4) + 1], i % 4) = 0

\* C22: in a turn of the Floyd-Steinberg loop at a pixel with its four
\* neighbours in the image, the amounts added to the right, bottom-left,
\* bottom and bottom-right neighbours before clamping sum to the error,
\* whatever the working intensity of the pixel.
C22_ErrorFullyDistributed ==
    invocation.fn = "_dither_4level_floyd_steinberg" =>
        LET added == invocation.out.added
        IN  added.right + added.bottom_left + added.bottom + added.bottom_right
               = invocation.out.error

\* The first visible index the windowing rule gives.
WindowStart(total, cursor) ==
    IF total <= 9 THEN 0
    ELSE IF cursor - 4 < 0 THEN 0
    ELSE IF cursor - 4 > total - 9 THEN total - 9
    ELSE cursor - 4

\* C23: for every list length total and cursor_index in 0 .. total - 1 the
\* first visible index is 0 when total <= 9 and otherwise cursor_index - 4
\* clamped to [0, total - 9]; the window [start, min(start + 9, total)) is
\* inside [0, total) and holds cursor_index; total = 24, cursor = 20 gives
\* [15, 24) and total = 5, cursor = 2 gives [0, 5).
C23_Window ==
    (invocation.fn = "render_list_view"
        /\ invocation.cursor_index < invocation.total_items) =>
        LET total  == invocation.total_items
            cursor == invocation.cursor_index
            start  == invocation.out.start_index
            rows   == invocation.out.rows
        IN  /\ start = WindowStart(total, cursor)
            /\ rows = start..((IF start + 9 < total THEN start + 9 ELSE total) - 1)
            /\ rows \subseteq 0..(total - 1)
            /\ cursor \in rows
            /\ (total = 24 /\ cursor = 20) => rows = 15..23
            /\ (total = 5 /\ cursor = 2) => rows = 0..4

\* C23 witness: the list of 24 items was drawn with the cursor on item 20
\* and rows 15 .. 23 are visible.
C23_Witness ==
    /\ invocation.fn = "render_list_view"
    /\ invocation.total_items = 24
    /\ invocation.cursor_index = 20
    /\ invocation.out.start_index = 15
    /\ invocation.out.rows = 15..23

C25_NotFoundReachesCaller ==
    (invocation.fn \in {"get_chapter_text", "get_chapter_image"}
        /\ invocation.has_content
        /\ invocation.page >= invocation.total_pages) =>
        /\ invocation.out.status = 404
        /\ invocation.out.pages = invocation.total_pages

\* C26: a render_chapter call on a chapter that is not cached, whose
\* document measures T > 0 and during which no await on the browser fails,
\* returns ceil(T / 300), and afterwards get_page_image gives a frame for
\* the indices 0 .. ceil(T / 300) - 1 of the chapter and None for every
\* other index and chapter id.
C26_ChapterRendered ==
    (tasks[1].call = "render_chapter" /\ tasks[1].pc = "done"
        /\ tasks[1].exit # "cached" /\ tasks[1].failed_at = "-"
        /\ tasks[1].total_height > 0) =>
        LET n == StepsToCover(tasks[1].total_height, 300)
        IN  /\ tasks[1].exit = "rendered"
            /\ tasks[1].result = [kind |-> "count", n |-> n]
            /\ \A i \in PageIndices :
                  (get_page_image(tasks[1].chapter_id, i) # None) <=> (i \in 0..(n - 1))
            /\ \A id \in ChapterIds \ {tasks[1].chapter_id}, i \in PageIndices :
                  get_page_image(id, i) = None

\* Where the bounds check sends a render_scroll_view call of task k's
\* orientation on a document of k's height when asked for step.
BoundsExit(k, step) == check_bounds([k EXCEPT !.scroll_step = step], k.total_height).exit

\* C27: the step m = max(0, ceil(T / H) - 1) the probe returns is the last
\* step inside the document: for every measured T >= 0 and H in {300, 400}
\* the bounds check does not answer "NEXT" at scroll_step = m and answers
\* "NEXT" at scroll_step = m + 1.
C27_ProbeIsLastInRange ==
    \A t \in Tasks :
       (ScrollViewDone(t) /\ tasks[t].exit = "probe") =>
          LET m == tasks[t].result.n
          IN  /\ tasks[t].result.kind = "max_steps"
              /\ BoundsExit(tasks[t], m) # "bounds"
              /\ BoundsExit(tasks[t], m + 1) = "bounds"

\* C27 witness: the probe of an 800 pixel document in portrait returned 1;
\* step 1 starts at 400 and is inside, step 2 starts at 800 and is past it.
C27_Witness ==
    /\ ScrollViewDone(1)
    /\ tasks[1].exit = "probe"
    /\ tasks[1].orientation = 1
    /\ tasks[1].total_height = 800
    /\ tasks[1].result = [kind |-> "max_steps", n |-> 1]
    /\ BoundsExit(tasks[1], 1) # "bounds"
    /\ BoundsExit(tasks[1], 2) = "bounds"

\* C29: when a render_scroll_view or render_chapter call has ended, by a
\* return or by an exception, the page it opened is closed.
C29_PageClosedAtEnd ==
    \A t \in Tasks : tasks[t].pc = "done" => ~tasks[t].page

\* C30: the browser is launched and its context created at most once per
\* HTMLEngine, also when two render calls begin before it is started.
C30_StartedOnce ==
    /\ chromium.launches <= 1
    /\ chromium.contexts <= 1

====
